---- MODULE Spec2Model ----
(***************************************************************************)
(* A model of the horizontalcycle effect (src/effect2.py): the iterator    *)
(* HorizontalCycleIterator, its construction, build(), __iter__ and        *)
(* __next__, over the Terminal / Character / AnimationScene engine it      *)
(* calls.  The engine lives in the terminaltexteffects package, outside    *)
(* src/; it is modelled from its documented contract.                      *)
(*                                                                         *)
(* Two effect instances are built from the same input text and the same    *)
(* configuration and are driven independently by the host, in any          *)
(* interleaving.                                                           *)
(***************************************************************************)
EXTENDS Integers, Sequences, FiniteSets, TLC

VARIABLES
    input_data,     \* the input text, a sequence of glyphs
    config,         \* HorizontalCycleConfig: [speed, amplitude]
    effect,         \* per instance: the iterator's fields and its Terminal's Characters
    calls,          \* per instance: number of __next__ calls made so far
    outcome,        \* per instance: how the latest __next__ ended
    frame,          \* per instance: the frame the latest __next__ returned
    activated       \* per instance: the Characters the latest __next__ activated

vars == <<input_data, config, effect, calls, outcome, frame, activated>>

----------------------------------------------------------------------------
(* Bounds of the model. *)

MaxLen == 2          \* longest input text
MaxAmplitude == 1    \* largest amplitude tried besides the default
MaxSpeed == 0        \* largest speed tried, in tenths of a second
MaxCalls == 7        \* __next__ calls per instance
SceneDuration == 5   \* ticks one animation scene plays for

(* Program constants. *)

DefaultAmplitude == 5    \* HorizontalCycleConfig.amplitude default
DefaultSpeed == 1        \* HorizontalCycleConfig.speed default, 0.1 s, in tenths
GradientSteps == 10      \* Gradient(..., steps=10)
StepCount == 5           \* third argument of apply_gradient_to_symbols

Instances == {1, 2}
Glyphs == {"A", "B"}

Texts == UNION {[1..n -> Glyphs] : n \in 0..MaxLen}
Amplitudes == ((0 - 1)..MaxAmplitude) \cup {DefaultAmplitude}
Speeds == (0..MaxSpeed) \cup {DefaultSpeed}

Abs(x) == IF x < 0 THEN 0 - x ELSE x

RECURSIVE Count(_, _)
Count(seq, x) ==
    IF seq = <<>> THEN 0
    ELSE (IF Head(seq) = x THEN 1 ELSE 0) + Count(Tail(seq), x)

----------------------------------------------------------------------------
(* Color and Gradient. *)

Color(r, g, b) == <<r, g, b>>
White == Color(255, 255, 255)     \* Color("ffffff")
Red == Color(255, 0, 0)           \* Color("ff0000")
Blue == Color(0, 0, 255)
NoColor == <<>>                   \* an uncolored glyph

Lerp(a, b, num, den) == [k \in 1..3 |-> a[k] + ((b[k] - a[k]) * num) \div den]

(* steps colors from c0 through c1 to c2; the end stops are kept exactly. *)
Gradient(c0, c1, c2, steps) ==
    IF steps = 1 THEN <<c0>>
    ELSE [k \in 1..steps |->
            LET den == steps - 1
                pos == 2 * (k - 1)
            IN  IF pos < den THEN Lerp(c0, c1, pos, den)
                ELSE Lerp(c1, c2, pos - den, den)]

----------------------------------------------------------------------------
(* Easing: the tick at which the fraction j/n of a scene of d ticks is     *)
(* reached.                                                                *)

EaseTick(ease, j, n, d) ==
    IF ease = "in_cubic" THEN (d * j * j * j) \div (n * n * n)
    ELSE (d * j) \div n

----------------------------------------------------------------------------
(* Animation scenes. *)

NoScene == [id |-> 0, ease |-> "none", frames |-> <<>>, playhead |-> 0]

new_scene(id, ease) == [id |-> id, ease |-> ease, frames |-> <<>>, playhead |-> 0]

apply_gradient_to_symbols(scene, gradient, symbol, step_count) ==
    [scene EXCEPT !.frames =
        [j \in 1..step_count |->
            [symbol |-> symbol,
             color |-> gradient[1 + ((j - 1) * (Len(gradient) - 1))
                                      \div (IF step_count > 1 THEN step_count - 1 ELSE 1)],
             duration |-> EaseTick(scene.ease, j, step_count, SceneDuration)
                          - EaseTick(scene.ease, j - 1, step_count, SceneDuration)]]]

RECURSIVE DurationUpTo(_, _)
DurationUpTo(frames, j) ==
    IF j = 0 THEN 0 ELSE frames[j].duration + DurationUpTo(frames, j - 1)

SceneEnd(scene) == DurationUpTo(scene.frames, Len(scene.frames))

(* The entry of the scene that is showing at its playhead. *)
SceneFrame(scene) ==
    LET j == CHOOSE k \in 1..Len(scene.frames) :
                 /\ DurationUpTo(scene.frames, k - 1) <= scene.playhead
                 /\ scene.playhead < DurationUpTo(scene.frames, k)
    IN  scene.frames[j]

----------------------------------------------------------------------------
(* Characters. *)

NewCharacter(symbol) ==
    [input_symbol |-> symbol, is_visible |-> FALSE, is_active |-> FALSE,
     scene |-> NoScene]

activate_scene(character, scene) ==
    [character EXCEPT !.scene = [scene EXCEPT !.playhead = 0], !.is_active = TRUE]

advance(character) ==
    IF ~character.is_active THEN character
    ELSE IF character.scene.playhead + 1 >= SceneEnd(character.scene)
         THEN [character EXCEPT !.is_active = FALSE, !.scene = NoScene]
         ELSE [character EXCEPT !.scene.playhead = @ + 1]

BaseSymbol(character) == [symbol |-> character.input_symbol, color |-> NoColor]

CurrentSymbol(character) ==
    IF character.is_active
    THEN [symbol |-> SceneFrame(character.scene).symbol,
          color |-> SceneFrame(character.scene).color]
    ELSE BaseSymbol(character)

----------------------------------------------------------------------------
(* Terminal. *)

Blank == [symbol |-> " ", color |-> NoColor]

TerminalBuild(text) == [k \in 1..Len(text) |-> NewCharacter(text[k])]

set_character_visibility(chars, k, visible) ==
    [chars EXCEPT ![k].is_visible = visible]

render_frame(chars) ==
    [k \in 1..Len(chars) |->
        IF chars[k].is_visible THEN CurrentSymbol(chars[k]) ELSE Blank]

----------------------------------------------------------------------------
(* The effect: HorizontalCycle(input_data) builds the Terminal; the        *)
(* iterator's fields are not assigned until the iterator is constructed.   *)

NewEffect(text) ==
    [phase |-> "effect",
     amplitude |-> 0, speed |-> 0, current_offset |-> 0, direction |-> 0,
     chars |-> TerminalBuild(text),
     active_characters |-> <<>>,
     next_scene_id |-> 1]

(* BaseEffectIterator.update(): tick every queued Character, then drop the *)
(* ones that are no longer active from the working set.                    *)
RECURSIVE TickAll(_, _)
TickAll(chars, queue) ==
    IF queue = <<>> THEN chars
    ELSE TickAll([chars EXCEPT ![Head(queue)] = advance(@)], Tail(queue))

update(e) ==
    LET ticked == TickAll(e.chars, e.active_characters)
    IN  [e EXCEPT !.chars = ticked,
                  !.active_characters =
                      SelectSeq(e.active_characters, LAMBDA k : ticked[k].is_active)]

----------------------------------------------------------------------------
(* HorizontalCycleIterator. *)

(* build() leaving the Characters as the Terminal made them. *)
buildNothing(e, k) == e

(* build() flipping each Character's visibility instead of setting it. *)
buildToggle(e, k) ==
    [e EXCEPT !.chars =
        [j \in 1..Len(e.chars) |->
            [e.chars[j] EXCEPT !.is_visible = ~e.chars[j].is_visible]]]

RECURSIVE build(_, _)
build(e, k) ==
    IF k > Len(e.chars) THEN e
    ELSE build([e EXCEPT !.chars = set_character_visibility(@, k, TRUE)], k + 1)

IteratorInit(e, cfg) ==
    build([e EXCEPT !.phase = "iterating",
                    !.amplitude = cfg.amplitude,
                    !.speed = cfg.speed,
                    !.current_offset = 0,
                    !.direction = 1], 1)

DunderIter(e) == e

(* The activation loop without its is_active test. *)
ShouldActivateAlways(character) == TRUE

(* The activation test with its "not" left out. *)
ShouldActivateInverted(character) == character.is_active

ShouldActivate(character) == ~character.is_active

(* The loop body reusing one scene object for every Character. *)
ActivateCharacterSharedScene(e, k, accent) ==
    LET character == e.chars[k]
        gradient_scn == new_scene(1, "in_cubic")
        gradient == Gradient(White, accent, White, GradientSteps)
        populated == apply_gradient_to_symbols(gradient_scn, gradient,
                                               character.input_symbol, StepCount)
    IN  [e EXCEPT !.chars[k] = activate_scene(character, populated),
                  !.active_characters = Append(@, k)]

(* The loop body passing the gradient's steps as the third argument. *)
ActivateCharacterTenSteps(e, k, accent) ==
    LET character == e.chars[k]
        gradient_scn == new_scene(e.next_scene_id, "in_cubic")
        gradient == Gradient(White, accent, White, GradientSteps)
        populated == apply_gradient_to_symbols(gradient_scn, gradient,
                                               character.input_symbol, GradientSteps)
    IN  [e EXCEPT !.chars[k] = activate_scene(character, populated),
                  !.active_characters = Append(@, k),
                  !.next_scene_id = @ + 1]

(* The loop body with the gradient's stops in the wrong order. *)
ActivateCharacterSwappedStops(e, k, accent) ==
    LET character == e.chars[k]
        gradient_scn == new_scene(e.next_scene_id, "in_cubic")
        gradient == Gradient(accent, White, accent, GradientSteps)
        populated == apply_gradient_to_symbols(gradient_scn, gradient,
                                               character.input_symbol, StepCount)
    IN  [e EXCEPT !.chars[k] = activate_scene(character, populated),
                  !.active_characters = Append(@, k),
                  !.next_scene_id = @ + 1]

(* The loop body without the append to the working set. *)
ActivateCharacterUnqueued(e, k, accent) ==
    LET character == e.chars[k]
        gradient_scn == new_scene(e.next_scene_id, "in_cubic")
        gradient == Gradient(White, accent, White, GradientSteps)
        populated == apply_gradient_to_symbols(gradient_scn, gradient,
                                               character.input_symbol, StepCount)
    IN  [e EXCEPT !.chars[k] = activate_scene(character, populated),
                  !.next_scene_id = @ + 1]

ActivateCharacter(e, k, accent) ==
    LET character == e.chars[k]
        gradient_scn == new_scene(e.next_scene_id, "in_cubic")
        gradient == Gradient(White, accent, White, GradientSteps)
        populated == apply_gradient_to_symbols(gradient_scn, gradient,
                                               character.input_symbol, StepCount)
    IN  [e EXCEPT !.chars[k] = activate_scene(character, populated),
                  !.active_characters = Append(@, k),
                  !.next_scene_id = @ + 1]

RECURSIVE ActivationLoop(_, _, _)
ActivationLoop(r, k, accent) ==
    IF k > Len(r.effect.chars) THEN r
    ELSE IF ShouldActivate(r.effect.chars[k])
         THEN ActivationLoop([effect |-> ActivateCharacter(r.effect, k, accent),
                              activated |-> r.activated \cup {k}], k + 1, accent)
         ELSE ActivationLoop(r, k + 1, accent)

(* __next__ walking the Terminal's own list backwards, reversing it. *)
NextStepsReversing(e, accent) ==
    LET r == ActivationLoop([effect |-> update(e), activated |-> {}], 1, accent)
        n == Len(r.effect.chars)
    IN  [r EXCEPT !.effect.chars = [j \in 1..n |-> r.effect.chars[n + 1 - j]]]

(* __next__ with update() after the loop instead of before it. *)
NextStepsUpdateLast(e, accent) ==
    LET r == ActivationLoop([effect |-> e, activated |-> {}], 1, accent)
    IN  [r EXCEPT !.effect = update(r.effect)]

(* The body of __next__ up to its return: update(), then the loop. *)
NextSteps(e, accent) ==
    ActivationLoop([effect |-> update(e), activated |-> {}], 1, accent)

(* __next__ moving the offset by the direction and never turning round. *)
DunderNextDrift(e, accent) ==
    LET r == NextSteps(e, accent)
    IN  [effect |-> [r.effect EXCEPT !.current_offset = @ + e.direction],
         outcome |-> "frame",
         frame |-> render_frame(r.effect.chars), activated |-> r.activated]

(* __next__ ending the iteration once no Character is queued. *)
DunderNextStop(e, accent) ==
    LET r == NextSteps(e, accent)
    IN  IF update(e).active_characters = <<>>
        THEN [effect |-> update(e), outcome |-> "StopIteration",
              frame |-> <<>>, activated |-> {}]
        ELSE [effect |-> r.effect, outcome |-> "frame",
              frame |-> render_frame(r.effect.chars), activated |-> r.activated]

(* __next__ with the oscillation: move by the direction, turn at the amplitude. *)
DunderNextOscillating(e, accent) ==
    LET r == NextSteps(e, accent)
        offset == e.current_offset + e.direction
    IN  [effect |-> [r.effect EXCEPT
                        !.current_offset = offset,
                        !.direction = IF Abs(offset) = e.amplitude
                                      THEN 0 - e.direction ELSE e.direction],
         outcome |-> "frame",
         frame |-> render_frame(r.effect.chars), activated |-> r.activated]

(* __next__ returning the frame it rendered before doing its work. *)
DunderNextStaleFrame(e, accent) ==
    LET r == NextSteps(e, accent)
    IN  [effect |-> r.effect, outcome |-> "frame",
         frame |-> render_frame(e.chars), activated |-> r.activated]

DunderNext(e, accent) ==
    LET r == NextSteps(e, accent)
    IN  [effect |-> r.effect, outcome |-> "frame",
         frame |-> render_frame(r.effect.chars), activated |-> r.activated]

----------------------------------------------------------------------------
(* The host: builds two effects from one text and one configuration,       *)
(* constructs their iterators and pulls frames from them.                  *)

Init ==
    /\ input_data \in Texts
    /\ config \in [speed : Speeds, amplitude : Amplitudes]
    /\ effect = [i \in Instances |-> NewEffect(input_data)]
    /\ calls = [i \in Instances |-> 0]
    /\ outcome = [i \in Instances |-> "none"]
    /\ frame = [i \in Instances |-> <<>>]
    /\ activated = [i \in Instances |-> {}]

Construct(i) ==
    /\ effect[i].phase = "effect"
    /\ effect' = [effect EXCEPT ![i] = IteratorInit(@, config)]
    /\ UNCHANGED <<input_data, config, calls, outcome, frame, activated>>

IterCall(i) ==
    /\ effect[i].phase = "iterating"
    /\ effect' = [effect EXCEPT ![i] = DunderIter(@)]
    /\ UNCHANGED <<input_data, config, calls, outcome, frame, activated>>

BuildCall(i) ==
    /\ effect[i].phase = "iterating"
    /\ effect' = [effect EXCEPT ![i] = build(@, 1)]
    /\ UNCHANGED <<input_data, config, calls, outcome, frame, activated>>

(* __next__ drawing the accent color at random. *)
NextCallRandomAccent(i) ==
    /\ effect[i].phase = "iterating"
    /\ outcome[i] # "StopIteration"
    /\ calls[i] < MaxCalls
    /\ \E accent \in {Red, Blue} :
         LET r == DunderNext(effect[i], accent)
         IN  /\ effect' = [effect EXCEPT ![i] = r.effect]
             /\ outcome' = [outcome EXCEPT ![i] = r.outcome]
             /\ frame' = [frame EXCEPT ![i] = r.frame]
             /\ activated' = [activated EXCEPT ![i] = r.activated]
    /\ calls' = [calls EXCEPT ![i] = @ + 1]
    /\ UNCHANGED <<input_data, config>>

NextCall(i) ==
    /\ effect[i].phase = "iterating"
    /\ outcome[i] # "StopIteration"
    /\ calls[i] < MaxCalls
    /\ LET r == DunderNext(effect[i], Red)
       IN  /\ effect' = [effect EXCEPT ![i] = r.effect]
           /\ outcome' = [outcome EXCEPT ![i] = r.outcome]
           /\ frame' = [frame EXCEPT ![i] = r.frame]
           /\ activated' = [activated EXCEPT ![i] = r.activated]
    /\ calls' = [calls EXCEPT ![i] = @ + 1]
    /\ UNCHANGED <<input_data, config>>

Next ==
    \E i \in Instances : Construct(i) \/ IterCall(i) \/ BuildCall(i) \/ NextCall(i)

Spec == Init /\ [][Next]_vars

----------------------------------------------------------------------------
(* The host that never stops requesting frames.  calls stops counting at    *)
(* MaxCalls, and scene ids, which only tell scenes apart, are renumbered    *)
(* from 1 after each call, so that the endless run has finitely many states.*)

Renumbered(e) ==
    LET used == {e.chars[k].scene.id :
                    k \in {j \in 1..Len(e.chars) : e.chars[j].is_active}}
        low == IF used = {} THEN e.next_scene_id
               ELSE CHOOSE x \in used : \A y \in used : x <= y
    IN  [e EXCEPT !.chars =
                      [k \in 1..Len(e.chars) |->
                          IF e.chars[k].is_active
                          THEN [e.chars[k] EXCEPT !.scene.id = @ - (low - 1)]
                          ELSE e.chars[k]],
                  !.next_scene_id = @ - (low - 1)]

NextCallLive(i) ==
    /\ effect[i].phase = "iterating"
    /\ outcome[i] # "StopIteration"
    /\ LET r == DunderNext(effect[i], Red)
       IN  /\ effect' = [effect EXCEPT ![i] = Renumbered(r.effect)]
           /\ outcome' = [outcome EXCEPT ![i] = r.outcome]
           /\ frame' = [frame EXCEPT ![i] = r.frame]
           /\ activated' = [activated EXCEPT ![i] = r.activated]
    /\ calls' = [calls EXCEPT ![i] = IF @ < MaxCalls THEN @ + 1 ELSE @]
    /\ UNCHANGED <<input_data, config>>

NextLive ==
    \E i \in Instances :
        Construct(i) \/ IterCall(i) \/ BuildCall(i) \/ NextCallLive(i)

(* The host constructs each iterator and then never stops calling its      *)
(* __next__.  KeepsRequesting(i) is weak fairness of NextCallLive(i),       *)
(* []<>(~ENABLED <<A>>_vars) \/ []<><<A>>_vars, with the enabling condition  *)
(* written out: the iterator exists, has not stopped, and has Characters    *)
(* to animate (with none, a call changes nothing).                          *)
Requested(i) ==
    /\ effect[i].phase = "iterating"
    /\ outcome[i] # "StopIteration"
    /\ Len(effect[i].chars) > 0

KeepsRequesting(i) ==
    []<>(~Requested(i)) \/ []<><<NextCallLive(i)>>_vars

SpecLive ==
    /\ Init
    /\ [][NextLive]_vars
    /\ \A i \in Instances : WF_vars(Construct(i)) /\ KeepsRequesting(i)

----------------------------------------------------------------------------
(* Properties. *)

Iterating(i) == effect[i].phase = "iterating"
ValidConfig == config.speed > 0 /\ config.amplitude > 0
NextStep(i) == calls'[i] = calls[i] + 1
Chars(i) == 1..Len(effect[i].chars)

\* C1: with speed > 0 and amplitude > 0, after construction and after any
\* number of __next__ calls, |current_offset| <= amplitude.
BoundedOffset ==
    \A i \in Instances :
        (Iterating(i) /\ effect[i].speed > 0 /\ effect[i].amplitude > 0)
            => Abs(effect[i].current_offset) <= effect[i].amplitude

BoundedOffsetWitness ==
    \E i \in Instances :
        /\ Iterating(i) /\ effect[i].speed > 0 /\ effect[i].amplitude = 1
        /\ calls[i] >= 3

\* C2: every __next__ call moves the offset by the direction held before the
\* call: offset after = offset before + direction before.
OffsetMovesByDirection ==
    [][\A i \in Instances :
          (NextStep(i) /\ ValidConfig)
              => effect'[i].current_offset
                     = effect[i].current_offset + effect[i].direction]_vars

\* C3: on every tick the direction flips if and only if the offset the tick
\* produces has |offset| = amplitude.
DirectionFlipsAtAmplitude ==
    [][\A i \in Instances :
          NextStep(i)
              => ((effect'[i].direction # effect[i].direction)
                      <=> (Abs(effect'[i].current_offset) = effect'[i].amplitude))]_vars

\* C4: every __next__ call, whatever the number of calls before it, returns
\* a frame and never signals completion; the iterator stays an iterator
\* after it (no terminal state), and __iter__ returns the same iterator,
\* not a restarted one.
InfiniteFrames ==
    [][\A i \in Instances :
          /\ NextStep(i)
                => /\ outcome'[i] = "frame"
                   /\ Len(frame'[i]) = Len(input_data)
                   /\ Iterating(i)'
          /\ (Iterating(i) /\ calls'[i] = calls[i])
                => effect'[i] = effect[i]]_vars

InfiniteFramesWitness ==
    \E i \in Instances :
        /\ calls[i] = MaxCalls /\ outcome[i] = "frame"
        /\ Len(frame[i]) = MaxLen

\* C5: a configuration with speed <= 0 or amplitude <= 0 is rejected at
\* construction: no iterator exists for it and no __next__ call succeeds.
InvalidConfigRejected ==
    (config.speed <= 0 \/ config.amplitude <= 0)
        => \A i \in Instances : ~Iterating(i) /\ calls[i] = 0

\* C6: __next__ triggers the new scenes before it advances the active
\* scenes, so a scene triggered during a call has playhead = 1 when the call
\* returns its frame.
TriggeredSceneAdvanced ==
    \A i \in Instances :
        \A k \in activated[i] : effect[i].chars[k].scene.playhead = 1

(* The Character's scene reaches its end at the next advance. *)
ScenePlayed(character) ==
    /\ character.is_active
    /\ character.scene.playhead + 1 >= SceneEnd(character.scene)

\* C7: a Character whose scene completes during a call is inactive and shows
\* its base Symbol in the frame that call returns.
CompletedShowsBase ==
    [][\A i \in Instances :
          NextStep(i)
              => \A k \in Chars(i) :
                    (Count(effect[i].active_characters, k) > 0
                         /\ ScenePlayed(effect[i].chars[k]))
                        => /\ ~effect'[i].chars[k].is_active
                           /\ frame'[i][k] = BaseSymbol(effect[i].chars[k])]_vars

(* What a __next__ step does to Character k of instance i, given the       *)
(* state `before` that update() left: a fresh scene at playhead 0, queued   *)
(* once more; or nothing at all.                                           *)
Triggered(i, k, before) ==
    /\ effect'[i].chars[k].is_active
    /\ effect'[i].chars[k].scene.id >= effect[i].next_scene_id
    /\ effect'[i].chars[k].scene.playhead = 0
    /\ Count(effect'[i].active_characters, k)
           = Count(before.active_characters, k) + 1
    /\ k \in activated'[i]

Kept(i, k, before) ==
    /\ effect'[i].chars[k] = before.chars[k]
    /\ Count(effect'[i].active_characters, k)
           = Count(before.active_characters, k)
    /\ k \notin activated'[i]

\* C8: a tick gives a Character a new scene, activates it and queues it if
\* and only if the Character is inactive when the activation loop reaches
\* it; an active Character keeps its scene and playhead and is not queued
\* again.
ActivatedIffInactive ==
    [][\A i \in Instances :
          NextStep(i)
              => LET before == update(effect[i])
                 IN  \A k \in Chars(i) :
                        /\ ~before.chars[k].is_active => Triggered(i, k, before)
                        /\ before.chars[k].is_active => Kept(i, k, before)]_vars

ActivatedIffInactiveWitness ==
    /\ Len(input_data) = MaxLen
    /\ calls[1] >= 2 /\ activated[1] = Chars(1)
    /\ calls[2] >= 2 /\ activated[2] = {}
    /\ \A k \in Chars(2) : effect[2].chars[k].scene.playhead >= 1

\* C9: the effect has one Character per input-text position, all invisible
\* until the iterator is constructed; from build() on every Character is
\* visible, after any number of __next__ calls.
VisibleAfterBuild ==
    \A i \in Instances :
        /\ Len(effect[i].chars) = Len(input_data)
        /\ \A k \in Chars(i) :
              /\ effect[i].chars[k].input_symbol = input_data[k]
              /\ effect[i].chars[k].is_visible <=> Iterating(i)

VisibleAfterBuildWitness ==
    /\ Len(input_data) = MaxLen
    /\ ~Iterating(1)
    /\ Iterating(2) /\ calls[2] >= 2

\* C10: two independent effect instances built from the same text and
\* configuration return identical frames at every tick index.
SameFramesAtSameTick ==
    \A i, j \in Instances :
        (Iterating(i) /\ Iterating(j) /\ calls[i] = calls[j])
            => frame[i] = frame[j]

SameFramesAtSameTickWitness ==
    /\ Len(input_data) = MaxLen
    /\ calls[1] = MaxCalls /\ calls[2] = MaxCalls
    /\ frame[1] = frame[2]
    /\ \A k \in Chars(1) : frame[1][k].color # NoColor

(* The glyphs of the Terminal's Characters, in the order get_characters()  *)
(* returns them.                                                           *)
CharacterOrder(e) == [k \in 1..Len(e.chars) |-> e.chars[k].input_symbol]

\* C11: the Characters a Terminal owns and their order are fixed: no
\* operation (build(), __iter__, __next__) adds, removes or reorders them,
\* and they stay the input text's Characters in text order.
CharactersFixed ==
    [][\A i \in Instances :
          /\ CharacterOrder(effect'[i]) = CharacterOrder(effect[i])
          /\ CharacterOrder(effect'[i]) = input_data]_vars

CharactersFixedWitness ==
    /\ Len(input_data) = MaxLen
    /\ input_data[1] # input_data[MaxLen]
    /\ calls[1] = MaxCalls
    /\ \A k \in Chars(1) : effect[1].chars[k].scene.id > MaxLen

\* C12: no two distinct Characters of a Terminal own the same scene: every
\* active Character's scene is one __next__ created for it alone.
ScenesNotShared ==
    \A i \in Instances :
        \A k1, k2 \in Chars(i) :
            (k1 # k2 /\ effect[i].chars[k1].is_active /\ effect[i].chars[k2].is_active)
                => /\ effect[i].chars[k1].scene.id # effect[i].chars[k2].scene.id
                   /\ effect[i].chars[k1].scene.id \in 1..(effect[i].next_scene_id - 1)

ScenesNotSharedWitness ==
    \E i \in Instances :
        /\ Len(effect[i].chars) >= 2
        /\ calls[i] > SceneDuration
        /\ effect[i].chars[1].is_active /\ effect[i].chars[2].is_active
        /\ effect[i].chars[1].scene.id # effect[i].chars[2].scene.id

\* C13: set_character_visibility is idempotent and leaves the animation
\* state alone, for every Character and both values; build() run again on
\* a constructed iterator changes nothing.
VisibilityIdempotent ==
    \A i \in Instances :
        /\ \A k \in Chars(i) : \A v \in BOOLEAN :
              LET once == set_character_visibility(effect[i].chars, k, v)
              IN  /\ set_character_visibility(once, k, v) = once
                  /\ once[k].is_visible = v
                  /\ once[k].scene = effect[i].chars[k].scene
                  /\ once[k].is_active = effect[i].chars[k].is_active
        /\ Iterating(i) => build(effect[i], 1) = effect[i]

VisibilityIdempotentWitness ==
    \E i \in Instances :
        /\ Iterating(i) /\ calls[i] >= 1
        /\ Len(effect[i].chars) = MaxLen
        /\ \A k \in Chars(i) :
              effect[i].chars[k].is_visible /\ effect[i].chars[k].is_active

\* C14: right after the activations of a __next__ call, each Character it
\* activated is active and owns exactly the new scene (the gradient scene
\* made for it in that call), with the playhead at 0.
ActivatedOwnsNewScene ==
    \A i \in Instances :
        \A k \in activated[i] :
            LET c == effect[i].chars[k]
            IN  /\ c.is_active
                /\ c.scene.playhead = 0
                /\ c.scene.id < effect[i].next_scene_id
                /\ c.scene.id >= effect[i].next_scene_id - Cardinality(activated[i])
                /\ c.scene = apply_gradient_to_symbols(
                                 new_scene(c.scene.id, "in_cubic"),
                                 Gradient(White, Red, White, GradientSteps),
                                 c.input_symbol, StepCount)

ActivatedOwnsNewSceneWitness ==
    \E i \in Instances :
        /\ Len(effect[i].chars) = MaxLen
        /\ calls[i] > SceneDuration
        /\ activated[i] = Chars(i)

\* C15: a scene populated with step_count entries has exactly step_count
\* entries: every scene __next__ builds has 5, and a scene of one entry
\* plays that entry for the whole scene duration.
SceneHasStepCountEntries ==
    /\ \A i \in Instances : \A k \in Chars(i) :
          effect[i].chars[k].is_active
              => /\ Len(effect[i].chars[k].scene.frames) = StepCount
                 /\ SceneEnd(effect[i].chars[k].scene) = SceneDuration
    /\ \A n \in 1..GradientSteps :
          LET sc == apply_gradient_to_symbols(
                        new_scene(1, "in_cubic"),
                        Gradient(White, Red, White, GradientSteps), "A", n)
          IN  /\ Len(sc.frames) = n
              /\ n = 1 => /\ sc.frames[1].duration = SceneDuration
                          /\ \A p \in 0..(SceneDuration - 1) :
                                SceneFrame([sc EXCEPT !.playhead = p]) = sc.frames[1]

SceneHasStepCountEntriesWitness ==
    \E i \in Instances :
        /\ calls[i] >= 1
        /\ Len(effect[i].chars) >= 1
        /\ effect[i].chars[1].is_active
        /\ Len(effect[i].chars[1].scene.frames) = StepCount

Stops == {White, Red, Blue}

\* C16: Gradient(c0, c1, c2, steps=10) has exactly 10 colors, the first c0
\* and the last c2, for every choice of stops; the scenes __next__ builds
\* from ffffff, ff0000, ffffff start and end at ffffff.
GradientKeepsEndStops ==
    /\ \A c0, c1, c2 \in Stops :
          LET g == Gradient(c0, c1, c2, GradientSteps)
          IN  Len(g) = GradientSteps /\ g[1] = c0 /\ g[Len(g)] = c2
    /\ \A i \in Instances : \A k \in Chars(i) :
          effect[i].chars[k].is_active
              => LET fr == effect[i].chars[k].scene.frames
                 IN  /\ fr[1].color = White
                     /\ fr[Len(fr)].color = White
                     /\ \E j \in 1..Len(fr) : fr[j].color # White

GradientKeepsEndStopsWitness ==
    \E i \in Instances :
        /\ calls[i] >= 1
        /\ Len(effect[i].chars) >= 1
        /\ effect[i].chars[1].is_active
        /\ effect[i].chars[1].scene.frames[1].color = White

\* C17: a frame has one position per Character, in text order: the current
\* Symbol of a visible Character, a blank for a non-visible one; the frame
\* __next__ returns is that rendering of the Characters as the call leaves
\* them, one position per input glyph.
FrameInTextOrder ==
    \A i \in Instances :
        /\ Len(render_frame(effect[i].chars)) = Len(input_data)
        /\ \A k \in Chars(i) :
              render_frame(effect[i].chars)[k]
                  = IF effect[i].chars[k].is_visible
                    THEN CurrentSymbol(effect[i].chars[k]) ELSE Blank
        /\ calls[i] >= 1
              => /\ frame[i] = render_frame(effect[i].chars)
                 /\ \A k \in Chars(i) : frame[i][k].symbol = input_data[k]
        /\ ~Iterating(i)
              => \A k \in Chars(i) : render_frame(effect[i].chars)[k] = Blank

FrameInTextOrderWitness ==
    \E i, j \in Instances :
        /\ Len(input_data) = MaxLen
        /\ ~Iterating(j)
        /\ calls[i] >= 2
        /\ \A k \in Chars(i) : frame[i][k].symbol = input_data[k]

ContinuousShimmer ==
    /\ [](\A i \in Instances :
             calls[i] >= 1 => \A k \in Chars(i) : effect[i].chars[k].is_active)
    /\ \A i \in Instances : \A k \in 1..MaxLen :
          []<>(k <= Len(input_data) => k \in activated[i])

ContinuousShimmerWitness ==
    /\ Len(input_data) = MaxLen
    /\ calls[1] = MaxCalls /\ calls[2] = MaxCalls
    /\ activated[1] = Chars(1)
    /\ activated[2] = {}

\* C20: when __next__ has returned, the working set holds each Character at
\* most once and holds exactly the Characters whose is_active is true.
WorkingSetConsistent ==
    \A i \in Instances :
        /\ \A k \in Chars(i) :
              Count(effect[i].active_characters, k)
                  = IF effect[i].chars[k].is_active THEN 1 ELSE 0
        /\ \A n \in 1..Len(effect[i].active_characters) :
              effect[i].active_characters[n] \in Chars(i)

WorkingSetConsistentWitness ==
    \E i \in Instances :
        /\ calls[i] = MaxCalls
        /\ Len(effect[i].chars) = MaxLen
        /\ Len(effect[i].active_characters) = MaxLen

====
